---- MODULE Spec2Model ----
(***************************************************************************)
(* Model of the rendering front-end (src/render/front.rs): the Renderer,   *)
(* its private binders (bind_frame, bind_program, bind_mesh, draw_slice),  *)
(* its lifecycle operations (reset, clone_empty) and the device that       *)
(* executes the recorded command buffers.                                  *)
(***************************************************************************)
EXTENDS Integers, Sequences, FiniteSets, TLC

VARIABLES
    rend,     \* renderer id -> Renderer struct, or NoRenderer before creation
    ret,      \* renderer id -> value returned by the last draw/clear
    log,      \* renderer id -> calls recorded since the buffer was last empty
    origin,   \* renderer id -> how the current buffer started: by create_renderer,
              \* reset or clone_empty, the shadow frame state left by the renderer
              \* that was reset or cloned, the commands the cloned one had recorded,
              \* and whether the reset discarded a buffer the device never executed
              \* whose last call was a failed draw into a non-default frame
    want,     \* renderer id -> the most recently requested non-default frame, and
              \* whether the most recent call asked for the default frame
    dev,      \* the device: its bound frame buffer, the shared target's attachments
    sub,      \* renderer id -> TRUE when the device has executed the buffer
    lost,     \* TRUE once recorded commands were discarded, or a buffer was
              \* recorded into or executed again after the device had executed it
    link      \* the device as link_program uses it: the calls link_program has
              \* made to it, the shader and program objects it has created, and
              \* the arguments and the result of the last link_program

vars == <<rend, ret, log, origin, want, dev, sub, lost, link>>

(***************************************************************************)
(* Bounds of the model.                                                    *)
(***************************************************************************)
\* calls (draw or clear) recorded into one command buffer before a reset
MaxCalls == 2
\* number of color slots of a Frame
NumColors == 2
\* declared uniforms, blocks and textures of a program, each at most
MaxParams == 2
\* declared vertex attributes of a program, at most
MaxAttrs == 2
\* attributes of a mesh, at most
MaxMeshAttrs == 2
\* link_program calls on one device
MaxLinks == 2

RIds == {1, 2}
NoRenderer == [exists |-> FALSE]

(***************************************************************************)
(* Values: planes, frames, targets, results, errors.                       *)
(***************************************************************************)
PlaneEmpty == [kind |-> "PlaneEmpty"]
PlaneSurface(suf) == [kind |-> "PlaneSurface", suf |-> suf]
PlaneTexture(tex, level, layer) ==
    [kind |-> "PlaneTexture", tex |-> tex, level |-> level, layer |-> layer]

TargetColor(i) == [kind |-> "TargetColor", index |-> i % 256]
TargetDepth == [kind |-> "TargetDepth"]
TargetStencil == [kind |-> "TargetStencil"]

\* target::Frame::new(width, height): every plane empty
FrameNew(w, h) ==
    [width |-> w, height |-> h,
     colors |-> [i \in 1..NumColors |-> PlaneEmpty],
     depth |-> PlaneEmpty, stencil |-> PlaneEmpty]

\* target::Frame::is_default: the frame that names the platform's own target
is_default(frame) ==
    /\ \A i \in 1..Len(frame.colors) : frame.colors[i] = PlaneEmpty
    /\ frame.depth = PlaneEmpty
    /\ frame.stencil = PlaneEmpty

\* state::DrawState::new()
DrawStateNew ==
    [primitive |-> [method |-> "Fill", mode |-> "CullNothing"],
     scissor |-> "None", depth |-> "None", stencil |-> "None",
     blend |-> "None", color_mask |-> "MaskAll"]

\* state::Primitive::get_cull_mode
get_cull_mode(primitive) ==
    IF primitive.method = "Fill" THEN primitive.mode ELSE "CullNothing"

Ok == [ok |-> TRUE]
OkOf(v) == [ok |-> TRUE, val |-> v]
ErrUnit == [ok |-> FALSE]
Err(e) == [ok |-> FALSE, err |-> e]
Some(v) == [some |-> TRUE, val |-> v]
None == [some |-> FALSE]

ErrorParamUniform(name) == [variant |-> "ErrorParamUniform", name |-> name]
ErrorParamBlock(name) == [variant |-> "ErrorParamBlock", name |-> name]
ErrorParamTexture(name) == [variant |-> "ErrorParamTexture", name |-> name]
ErrorAttributeMissing(name) == [variant |-> "ErrorAttributeMissing", name |-> name]
ErrorAttributeType == [variant |-> "ErrorAttributeType"]
ErrorParameter(e) == [variant |-> "ErrorParameter", inner |-> e]
ErrorMesh(e) == [variant |-> "ErrorMesh", inner |-> e]

ErrorVertex(e) == [variant |-> "ErrorVertex", inner |-> e]
ErrorFragment(e) == [variant |-> "ErrorFragment", inner |-> e]
ErrorLink(e) == [variant |-> "ErrorLink", inner |-> e]
ErrorParameters(e) == [variant |-> "ErrorParameters", inner |-> e]

(***************************************************************************)
(* Frame-target cache: bind_target and bind_frame.                         *)
(***************************************************************************)
bind_target(buf, to, plane) ==
    IF plane.kind = "PlaneEmpty"
    THEN Append(buf, [op |-> "unbind_target", to |-> to])
    ELSE IF plane.kind = "PlaneSurface"
    THEN Append(buf, [op |-> "bind_target_surface", to |-> to, suf |-> plane.suf])
    ELSE Append(buf, [op |-> "bind_target_texture", to |-> to, tex |-> plane.tex,
                      level |-> plane.level, layer |-> plane.layer])

Min(a, b) == IF a < b THEN a ELSE b

\* the loop over state.frame.colors zipped with frame.colors, from 1-based i
RECURSIVE bind_colors(_, _, _, _)
bind_colors(buf, cur, new, i) ==
    IF i > Min(Len(cur), Len(new)) THEN buf
    ELSE bind_colors(
            IF cur[i] # new[i] THEN bind_target(buf, TargetColor(i - 1), new[i])
            ELSE buf,
            cur, new, i + 1)

\* mutant: the shadow state is not replaced by the requested frame
bind_frame_keeps_shadow(self, frame) ==
    LET b0 == Append(self.buf, [op |-> "set_viewport", x |-> 0, y |-> 0,
                                w |-> frame.width, h |-> frame.height])
    IN  IF is_default(frame)
        THEN [self EXCEPT !.buf = Append(b0, [op |-> "bind_frame_buffer",
                                              fb |-> self.default_frame_buffer])]
        ELSE LET b1 == Append(b0, [op |-> "bind_frame_buffer",
                                   fb |-> self.common_frame_buffer])
                 b2 == bind_colors(b1, self.state.frame.colors, frame.colors, 1)
                 b3 == IF self.state.frame.depth # frame.depth
                       THEN bind_target(b2, TargetDepth, frame.depth) ELSE b2
                 b4 == IF self.state.frame.stencil # frame.stencil
                       THEN bind_target(b3, TargetStencil, frame.stencil) ELSE b3
             IN  [self EXCEPT !.buf = b4]

\* mutant: binding the default frame resets the shadow state to "nothing bound"
bind_frame_default_resets(self, frame) ==
    LET b0 == Append(self.buf, [op |-> "set_viewport", x |-> 0, y |-> 0,
                                w |-> frame.width, h |-> frame.height])
    IN  IF is_default(frame)
        THEN [self EXCEPT !.buf = Append(b0, [op |-> "bind_frame_buffer",
                                              fb |-> self.default_frame_buffer]),
                          !.state.frame = frame]
        ELSE LET b1 == Append(b0, [op |-> "bind_frame_buffer",
                                   fb |-> self.common_frame_buffer])
                 b2 == bind_colors(b1, self.state.frame.colors, frame.colors, 1)
                 b3 == IF self.state.frame.depth # frame.depth
                       THEN bind_target(b2, TargetDepth, frame.depth) ELSE b2
                 b4 == IF self.state.frame.stencil # frame.stencil
                       THEN bind_target(b3, TargetStencil, frame.stencil) ELSE b3
             IN  [self EXCEPT !.buf = b4, !.state.frame = frame]

\* mutant: only the slots that were rebound are copied into the shadow state, and
\* the stencil slot is forgotten
bind_frame_partial_shadow(self, frame) ==
    LET b0 == Append(self.buf, [op |-> "set_viewport", x |-> 0, y |-> 0,
                                w |-> frame.width, h |-> frame.height])
    IN  IF is_default(frame)
        THEN [self EXCEPT !.buf = Append(b0, [op |-> "bind_frame_buffer",
                                              fb |-> self.default_frame_buffer])]
        ELSE LET b1 == Append(b0, [op |-> "bind_frame_buffer",
                                   fb |-> self.common_frame_buffer])
                 b2 == bind_colors(b1, self.state.frame.colors, frame.colors, 1)
                 b3 == IF self.state.frame.depth # frame.depth
                       THEN bind_target(b2, TargetDepth, frame.depth) ELSE b2
                 b4 == IF self.state.frame.stencil # frame.stencil
                       THEN bind_target(b3, TargetStencil, frame.stencil) ELSE b3
             IN  [self EXCEPT !.buf = b4, !.state.frame.colors = frame.colors,
                              !.state.frame.depth = frame.depth]

\* mutant: nothing is emitted when the requested frame is the shadow frame state
bind_frame_skips_unchanged(self, frame) ==
    IF frame = self.state.frame THEN self
    ELSE LET b0 == Append(self.buf, [op |-> "set_viewport", x |-> 0, y |-> 0,
                                     w |-> frame.width, h |-> frame.height])
         IN  IF is_default(frame)
             THEN [self EXCEPT !.buf = Append(b0, [op |-> "bind_frame_buffer",
                                                   fb |-> self.default_frame_buffer])]
             ELSE LET b1 == Append(b0, [op |-> "bind_frame_buffer",
                                        fb |-> self.common_frame_buffer])
                      b2 == bind_colors(b1, self.state.frame.colors, frame.colors, 1)
                      b3 == IF self.state.frame.depth # frame.depth
                            THEN bind_target(b2, TargetDepth, frame.depth) ELSE b2
                      b4 == IF self.state.frame.stencil # frame.stencil
                            THEN bind_target(b3, TargetStencil, frame.stencil) ELSE b3
                  IN  [self EXCEPT !.buf = b4, !.state.frame = frame]

bind_frame(self, frame) ==
    LET b0 == Append(self.buf, [op |-> "set_viewport", x |-> 0, y |-> 0,
                                w |-> frame.width, h |-> frame.height])
    IN  IF is_default(frame)
        THEN [self EXCEPT !.buf = Append(b0, [op |-> "bind_frame_buffer",
                                              fb |-> self.default_frame_buffer])]
        ELSE LET b1 == Append(b0, [op |-> "bind_frame_buffer",
                                   fb |-> self.common_frame_buffer])
                 b2 == bind_colors(b1, self.state.frame.colors, frame.colors, 1)
                 b3 == IF self.state.frame.depth # frame.depth
                       THEN bind_target(b2, TargetDepth, frame.depth) ELSE b2
                 b4 == IF self.state.frame.stencil # frame.stencil
                       THEN bind_target(b3, TargetStencil, frame.stencil) ELSE b3
             IN  [self EXCEPT !.buf = b4, !.state.frame = frame]

(***************************************************************************)
(* Parameter binder: bind_program.  A binder returns [self, res].          *)
(***************************************************************************)
\* mutant: a uniform that was not supplied is skipped instead of reported
RECURSIVE bind_uniforms_skips_absent(_, _, _, _)
bind_uniforms_skips_absent(buf, decl, opts, i) ==
    IF i > Min(Len(decl), Len(opts)) THEN [buf |-> buf, res |-> Ok]
    ELSE IF opts[i].some
    THEN bind_uniforms_skips_absent(
            Append(buf, [op |-> "bind_uniform", loc |-> decl[i].location,
                         val |-> opts[i].val]),
            decl, opts, i + 1)
    ELSE bind_uniforms_skips_absent(buf, decl, opts, i + 1)

RECURSIVE bind_uniforms(_, _, _, _)
bind_uniforms(buf, decl, opts, i) ==
    IF i > Min(Len(decl), Len(opts)) THEN [buf |-> buf, res |-> Ok]
    ELSE IF opts[i].some
    THEN bind_uniforms(Append(buf, [op |-> "bind_uniform", loc |-> decl[i].location,
                                    val |-> opts[i].val]),
                       decl, opts, i + 1)
    ELSE [buf |-> buf, res |-> Err(ErrorParamUniform(decl[i].name))]

RECURSIVE bind_blocks(_, _, _, _, _)
bind_blocks(buf, prog, decl, opts, i) ==
    IF i > Min(Len(decl), Len(opts)) THEN [buf |-> buf, res |-> Ok]
    ELSE IF opts[i].some
    THEN bind_blocks(Append(buf, [op |-> "bind_uniform_block", prog |-> prog,
                                  slot |-> i - 1, index |-> i - 1,
                                  buf |-> opts[i].val]),
                     prog, decl, opts, i + 1)
    ELSE [buf |-> buf, res |-> Err(ErrorParamBlock(decl[i].name))]

\* mutant: the sampler uniform of every texture is set to unit 0
RECURSIVE bind_textures_unit_zero(_, _, _, _)
bind_textures_unit_zero(buf, decl, opts, i) ==
    IF i > Min(Len(decl), Len(opts)) THEN [buf |-> buf, res |-> Ok]
    ELSE IF opts[i].some
    THEN bind_textures_unit_zero(
            Append(Append(buf, [op |-> "bind_uniform", loc |-> decl[i].location,
                                val |-> [ValueI32 |-> 0]]),
                   [op |-> "bind_texture", slot |-> i - 1,
                    kind |-> opts[i].val.tex.kind, tex |-> opts[i].val.tex.name,
                    sampler |-> opts[i].val.sampler]),
            decl, opts, i + 1)
    ELSE [buf |-> buf, res |-> Err(ErrorParamTexture(decl[i].name))]

RECURSIVE bind_textures(_, _, _, _)
bind_textures(buf, decl, opts, i) ==
    IF i > Min(Len(decl), Len(opts)) THEN [buf |-> buf, res |-> Ok]
    ELSE IF opts[i].some
    THEN bind_textures(
            Append(Append(buf, [op |-> "bind_uniform", loc |-> decl[i].location,
                                val |-> [ValueI32 |-> i - 1]]),
                   [op |-> "bind_texture", slot |-> i - 1,
                    kind |-> opts[i].val.tex.kind, tex |-> opts[i].val.tex.name,
                    sampler |-> opts[i].val.sampler]),
            decl, opts, i + 1)
    ELSE [buf |-> buf, res |-> Err(ErrorParamTexture(decl[i].name))]

\* mutant: the textures are bound before the uniform blocks
bind_program_textures_first(self, prog) ==
    LET b0 == Append(self.buf, [op |-> "bind_program", prog |-> prog.name])
        u == bind_uniforms(b0, prog.info.uniforms, prog.params.uniforms, 1)
        t == bind_textures(u.buf, prog.info.textures, prog.params.textures, 1)
        b == bind_blocks(t.buf, prog.name, prog.info.blocks, prog.params.blocks, 1)
    IN  IF ~u.res.ok THEN [self |-> [self EXCEPT !.buf = u.buf], res |-> u.res]
        ELSE IF ~t.res.ok THEN [self |-> [self EXCEPT !.buf = t.buf], res |-> t.res]
        ELSE [self |-> [self EXCEPT !.buf = b.buf], res |-> b.res]

bind_program(self, prog) ==
    LET b0 == Append(self.buf, [op |-> "bind_program", prog |-> prog.name])
        u == bind_uniforms(b0, prog.info.uniforms, prog.params.uniforms, 1)
        b == bind_blocks(u.buf, prog.name, prog.info.blocks, prog.params.blocks, 1)
        t == bind_textures(b.buf, prog.info.textures, prog.params.textures, 1)
    IN  IF ~u.res.ok THEN [self |-> [self EXCEPT !.buf = u.buf], res |-> u.res]
        ELSE IF ~b.res.ok THEN [self |-> [self EXCEPT !.buf = b.buf], res |-> b.res]
        ELSE [self |-> [self EXCEPT !.buf = t.buf], res |-> t.res]

(***************************************************************************)
(* Mesh binder: bind_mesh.                                                 *)
(***************************************************************************)
\* device::attrib::Type::is_compatible(base_type)
is_compatible(elem_type, base_type) ==
    \/ elem_type = "Float" /\ base_type = "BaseF32"
    \/ elem_type = "Int" /\ base_type = "BaseI32"

\* mutant: the last mesh attribute of the name is taken, not the first
RECURSIVE find_attribute_last(_, _, _)
find_attribute_last(attrs, name, i) ==
    IF i > Len(attrs) THEN 0
    ELSE LET later == find_attribute_last(attrs, name, i + 1)
         IN  IF later # 0 THEN later
             ELSE IF attrs[i].name = name THEN i ELSE 0

\* mesh.attributes.iter().find(|a| a.name == name): index of the first match, or 0
RECURSIVE find_attribute(_, _, _)
find_attribute(attrs, name, i) ==
    IF i > Len(attrs) THEN 0
    ELSE IF attrs[i].name = name THEN i
    ELSE find_attribute(attrs, name, i + 1)

\* mutant: a declared attribute the mesh lacks is skipped instead of reported
RECURSIVE bind_attributes_skips_missing(_, _, _, _)
bind_attributes_skips_missing(buf, mesh, decl, i) ==
    IF i > Len(decl) THEN [buf |-> buf, res |-> Ok]
    ELSE LET sat == decl[i]
             j == find_attribute(mesh.attributes, sat.name, 1)
         IN  IF j = 0 THEN bind_attributes_skips_missing(buf, mesh, decl, i + 1)
             ELSE IF ~is_compatible(mesh.attributes[j].elem_type, sat.base_type)
             THEN [buf |-> buf, res |-> Err(ErrorAttributeType)]
             ELSE bind_attributes_skips_missing(
                    Append(buf, [op |-> "bind_attribute", slot |-> sat.location,
                                 buf |-> mesh.attributes[j].buffer,
                                 elem_count |-> mesh.attributes[j].elem_count,
                                 elem_type |-> mesh.attributes[j].elem_type,
                                 stride |-> mesh.attributes[j].stride,
                                 offset |-> mesh.attributes[j].offset]),
                    mesh, decl, i + 1)

RECURSIVE bind_attributes(_, _, _, _)
bind_attributes(buf, mesh, decl, i) ==
    IF i > Len(decl) THEN [buf |-> buf, res |-> Ok]
    ELSE LET sat == decl[i]
             j == find_attribute(mesh.attributes, sat.name, 1)
         IN  IF j = 0 THEN [buf |-> buf, res |-> Err(ErrorAttributeMissing(sat.name))]
             ELSE IF ~is_compatible(mesh.attributes[j].elem_type, sat.base_type)
             THEN [buf |-> buf, res |-> Err(ErrorAttributeType)]
             ELSE bind_attributes(
                    Append(buf, [op |-> "bind_attribute", slot |-> sat.location,
                                 buf |-> mesh.attributes[j].buffer,
                                 elem_count |-> mesh.attributes[j].elem_count,
                                 elem_type |-> mesh.attributes[j].elem_type,
                                 stride |-> mesh.attributes[j].stride,
                                 offset |-> mesh.attributes[j].offset]),
                    mesh, decl, i + 1)

bind_mesh(self, mesh, info) ==
    LET b0 == IF self.common_array_buffer.ok
              THEN Append(self.buf, [op |-> "bind_array_buffer",
                                     ab |-> self.common_array_buffer.val])
              ELSE self.buf
        a == bind_attributes(b0, mesh, info.attributes, 1)
    IN  [self |-> [self EXCEPT !.buf = a.buf], res |-> a.res]

(***************************************************************************)
(* Draw dispatcher: draw_slice.                                            *)
(***************************************************************************)
\* mutant: 32-bit indices are drawn as 16-bit ones
draw_slice_narrows_width(self, slice) ==
    IF slice.variant = "VertexSlice"
    THEN [self EXCEPT !.buf = Append(@, [op |-> "call_draw", prim |-> slice.prim,
                                         start |-> slice.start, end |-> slice.end])]
    ELSE LET width == IF slice.variant = "IndexSlice8" THEN "U8" ELSE "U16"
         IN  [self EXCEPT !.buf =
                Append(Append(@, [op |-> "bind_index", buf |-> slice.buf]),
                       [op |-> "call_draw_indexed", prim |-> slice.prim,
                        width |-> width, start |-> slice.start, end |-> slice.end])]

draw_slice(self, slice) ==
    IF slice.variant = "VertexSlice"
    THEN [self EXCEPT !.buf = Append(@, [op |-> "call_draw", prim |-> slice.prim,
                                         start |-> slice.start, end |-> slice.end])]
    ELSE LET width == IF slice.variant = "IndexSlice8" THEN "U8"
                      ELSE IF slice.variant = "IndexSlice16" THEN "U16" ELSE "U32"
         IN  [self EXCEPT !.buf =
                Append(Append(@, [op |-> "bind_index", buf |-> slice.buf]),
                       [op |-> "call_draw_indexed", prim |-> slice.prim,
                        width |-> width, start |-> slice.start, end |-> slice.end])]

(***************************************************************************)
(* Renderer: draw, clear, reset, clone_empty; DeviceHelper::create_renderer*)
(***************************************************************************)
\* mutant: the color mask is never set
set_fixed_function_no_mask(self, state) ==
    [self EXCEPT !.buf =
        @ \o << [op |-> "set_primitive", primitive |-> state.primitive],
                [op |-> "set_scissor", scissor |-> state.scissor],
                [op |-> "set_depth_stencil", depth |-> state.depth,
                 stencil |-> state.stencil,
                 cull |-> get_cull_mode(state.primitive)],
                [op |-> "set_blend", blend |-> state.blend] >>]

set_fixed_function(self, state) ==
    [self EXCEPT !.buf =
        @ \o << [op |-> "set_primitive", primitive |-> state.primitive],
                [op |-> "set_scissor", scissor |-> state.scissor],
                [op |-> "set_depth_stencil", depth |-> state.depth,
                 stencil |-> state.stencil,
                 cull |-> get_cull_mode(state.primitive)],
                [op |-> "set_blend", blend |-> state.blend],
                [op |-> "set_color_mask", mask |-> state.color_mask] >>]

\* mutant: the fixed-function state is set before the program's result is looked at
draw_state_before_check(self, mesh, slice, frame, program, state) ==
    LET s1 == bind_frame(self, frame)
        p == bind_program(s1, program)
        s3 == set_fixed_function(p.self, state)
        m == bind_mesh(s3, mesh, program.info)
    IN  IF ~p.res.ok THEN [self |-> s3, res |-> Err(ErrorParameter(p.res.err))]
        ELSE IF ~m.res.ok THEN [self |-> m.self, res |-> Err(ErrorMesh(m.res.err))]
        ELSE [self |-> draw_slice(m.self, slice), res |-> Ok]

\* mutant: a failed draw puts the renderer back as it was before the call
draw_rolls_back(self, mesh, slice, frame, program, state) ==
    LET s1 == bind_frame(self, frame)
        p == bind_program(s1, program)
        s3 == set_fixed_function(p.self, state)
        m == bind_mesh(s3, mesh, program.info)
    IN  IF ~p.res.ok THEN [self |-> self, res |-> Err(ErrorParameter(p.res.err))]
        ELSE IF ~m.res.ok THEN [self |-> self, res |-> Err(ErrorMesh(m.res.err))]
        ELSE [self |-> draw_slice(m.self, slice), res |-> Ok]

draw(self, mesh, slice, frame, program, state) ==
    LET s1 == bind_frame(self, frame)
        p == bind_program(s1, program)
        s3 == set_fixed_function(p.self, state)
        m == bind_mesh(s3, mesh, program.info)
    IN  IF ~p.res.ok THEN [self |-> p.self, res |-> Err(ErrorParameter(p.res.err))]
        ELSE IF ~m.res.ok THEN [self |-> m.self, res |-> Err(ErrorMesh(m.res.err))]
        ELSE [self |-> draw_slice(m.self, slice), res |-> Ok]

clear(self, data, frame) ==
    [bind_frame(self, frame) EXCEPT !.buf = Append(@, [op |-> "call_clear", data |-> data])]

\* mutant: reset also returns the shadow frame state to "nothing bound"
reset_forgets_frame(self) ==
    [self EXCEPT !.buf = << >>, !.state.frame = FrameNew(0, 0)]

\* mutant: reset leaves the first recorded command in the buffer
reset_keeps_command(self) ==
    [self EXCEPT !.buf = IF @ = << >> THEN @ ELSE <<Head(@)>>]

\* mutant: reset also gives up the common array buffer
reset_drops_array_buffer(self) ==
    [self EXCEPT !.buf = << >>, !.common_array_buffer = ErrUnit]

reset(self) == [self EXCEPT !.buf = << >>]

\* mutant: the clone takes over the shadow frame state of the original
clone_empty_copies_frame(self) ==
    [exists |-> TRUE,
     buf |-> << >>,
     common_array_buffer |-> self.common_array_buffer,
     common_frame_buffer |-> self.common_frame_buffer,
     default_frame_buffer |-> self.default_frame_buffer,
     state |-> [frame |-> self.state.frame, draw_state |-> DrawStateNew]]

clone_empty(self) ==
    [exists |-> TRUE,
     buf |-> << >>,
     common_array_buffer |-> self.common_array_buffer,
     common_frame_buffer |-> self.common_frame_buffer,
     default_frame_buffer |-> self.default_frame_buffer,
     state |-> [frame |-> FrameNew(0, 0), draw_state |-> DrawStateNew]]

\* array_buffer: the device's create_array_buffer() result, Ok(handle) or Err(())
create_renderer(array_buffer) ==
    [exists |-> TRUE,
     buf |-> << >>,
     common_array_buffer |-> array_buffer,
     common_frame_buffer |-> "fbo_common",
     default_frame_buffer |-> "fbo_main",
     state |-> [frame |-> FrameNew(0, 0), draw_state |-> DrawStateNew]]

(***************************************************************************)
(* DeviceHelper::link_program and the device calls it makes.  A device call *)
(* returns [self, res]: the device after the call and the call's result.   *)
(***************************************************************************)
\* Device::create_shader(stage, source): the compiler's verdict on the source
create_shader(self, stage, source) ==
    LET called == [self EXCEPT !.calls = Append(@, [op |-> "create_shader",
                                                    stage |-> stage])]
    IN  IF source.compiles
        THEN [self |-> [called EXCEPT !.made = @ + 1],
              res |-> OkOf([shader |-> self.made + 1, stage |-> stage])]
        ELSE [self |-> called, res |-> Err(source.error)]

\* Device::create_program(shaders): links when the shaders fit together
create_program(self, shaders, fit) ==
    LET called == [self EXCEPT !.calls = Append(@, [op |-> "create_program",
                                                    shaders |-> shaders])]
    IN  IF fit
        THEN [self |-> [called EXCEPT !.made = @ + 1],
              res |-> OkOf([program |-> self.made + 1, shaders |-> shaders])]
        ELSE [self |-> called, res |-> Err("()")]

\* shade::UserProgram::connect(prog): matches the program's interface with the
\* parameter struct; wanted is Ok or the shade::ParameterError it finds
connect(self, prog, wanted) ==
    [self |-> [self EXCEPT !.calls = Append(@, [op |-> "connect", prog |-> prog])],
     res |-> IF wanted.ok THEN OkOf([UserProgram |-> prog]) ELSE wanted]

\* mutant: the fragment shader is compiled even when the vertex shader failed
link_program_compiles_both(self, vs_src, fs_src, env) ==
    LET vs == create_shader(self, "Vertex", vs_src)
        fs == create_shader(vs.self, "Fragment", fs_src)
    IN  IF ~vs.res.ok THEN [self |-> fs.self, res |-> Err(ErrorVertex(vs.res.err))]
        ELSE IF ~fs.res.ok
        THEN [self |-> fs.self, res |-> Err(ErrorFragment(fs.res.err))]
        ELSE LET prog == create_program(fs.self, <<vs.res.val, fs.res.val>>, env.fit)
             IN  IF ~prog.res.ok
                 THEN [self |-> prog.self, res |-> Err(ErrorLink(prog.res.err))]
                 ELSE LET c == connect(prog.self, prog.res.val, env.wanted)
                      IN  [self |-> c.self,
                           res |-> IF c.res.ok THEN c.res
                                   ELSE Err(ErrorParameters(c.res.err))]

\* env: what create_program and connect will find, fixed by the device and by the
\* parameter struct the caller asks for
link_program(self, vs_src, fs_src, env) ==
    LET vs == create_shader(self, "Vertex", vs_src)
    IN  IF ~vs.res.ok THEN [self |-> vs.self, res |-> Err(ErrorVertex(vs.res.err))]
        ELSE LET fs == create_shader(vs.self, "Fragment", fs_src)
             IN  IF ~fs.res.ok
                 THEN [self |-> fs.self, res |-> Err(ErrorFragment(fs.res.err))]
                 ELSE LET prog == create_program(fs.self, <<vs.res.val, fs.res.val>>,
                                                 env.fit)
                      IN  IF ~prog.res.ok
                          THEN [self |-> prog.self,
                                res |-> Err(ErrorLink(prog.res.err))]
                          ELSE LET c == connect(prog.self, prog.res.val, env.wanted)
                               IN  [self |-> c.self,
                                    res |-> IF c.res.ok THEN c.res
                                            ELSE Err(ErrorParameters(c.res.err))]

(***************************************************************************)
(* Inputs of the calls.                                                    *)
(***************************************************************************)
\* shader sources: one that compiles, and two that fail with different diagnostics
ShaderSources ==
    {[text |-> "good", compiles |-> TRUE],
     [text |-> "typo", compiles |-> FALSE, error |-> "ShaderCompilationFailed"],
     [text |-> "glsl_150", compiles |-> FALSE, error |-> "NoSupportedShaderProvided"]}
\* what linking and parameter connection will find
LinkEnvs ==
    {[fit |-> fit, wanted |-> w] :
        fit \in BOOLEAN,
        w \in {Ok, Err([variant |-> "ErrorUniform", name |-> "A"]),
               Err([variant |-> "ErrorTexture", name |-> "TexA"])}}

S1 == PlaneSurface("s1")
S2 == PlaneSurface("s2")
T1 == PlaneTexture("t1", 0, 0)
T2 == PlaneTexture("t1", 1, 0)

\* a frame from the leading color planes (the others empty), depth and stencil
MkFrame(w, h, colors, depth, stencil) ==
    [width |-> w, height |-> h,
     colors |-> [i \in 1..NumColors |-> IF i <= Len(colors) THEN colors[i]
                                         ELSE PlaneEmpty],
     depth |-> depth, stencil |-> stencil]

FDefault == MkFrame(8, 6, << >>, PlaneEmpty, PlaneEmpty)
FA == MkFrame(4, 3, <<S1>>, PlaneEmpty, PlaneEmpty)
FB == MkFrame(4, 3, <<T1>>, PlaneEmpty, PlaneEmpty)
FC == MkFrame(4, 3, <<S1, T1>>, PlaneEmpty, PlaneEmpty)
FD == MkFrame(4, 3, <<S1>>, S2, PlaneEmpty)
FE == MkFrame(4, 3, <<S1>>, S2, S2)
FF == MkFrame(4, 3, <<S1>>, T2, S2)
FG == MkFrame(4, 3, << >>, S2, PlaneEmpty)

Frames == {FDefault, FA, FB, FC, FD, FE, FF, FG}

Uniform(name, location) == [name |-> name, location |-> location]
Attribute(name, location, base_type) ==
    [name |-> name, location |-> location, base_type |-> base_type]
MeshAttribute(name, elem_type, buffer) ==
    [name |-> name, elem_type |-> elem_type, buffer |-> buffer,
     elem_count |-> 3, stride |-> 12, offset |-> 0]

\* a program shell: handle name, declared interface, and what fill_params supplies
MkProgram(name, uniforms, blocks, textures, attributes, pu, pb, pt) ==
    [name |-> name,
     info |-> [uniforms |-> uniforms, blocks |-> blocks, textures |-> textures,
               attributes |-> attributes],
     params |-> [uniforms |-> pu, blocks |-> pb, textures |-> pt]]

DeclUniforms == <<Uniform("A", 0), Uniform("B", 1), Uniform("C", 2)>>
DeclBlocks == <<[name |-> "BlkA"], [name |-> "BlkB"], [name |-> "BlkC"]>>
DeclTextures == <<Uniform("TexA", 10), Uniform("TexB", 11), Uniform("TexC", 12)>>
DeclAttributes == <<Attribute("position", 0, "BaseF32"), Attribute("normal", 1, "BaseF32"),
                    Attribute("id", 2, "BaseI32")>>

\* what fill_params leaves in the slots of n declared parameters: any subset supplied
Supplied(n, value(_)) ==
    {[i \in 1..n |-> IF i \in present THEN Some(value(i)) ELSE None] :
        present \in SUBSET (1..n)}
UniformValue(i) == [ValueF32 |-> i]
BlockValue(i) == <<"ubo", i>>
TextureValue(i) == [tex |-> [name |-> <<"tex", i>>, kind |-> "Texture2D"],
                    sampler |-> <<"sampler", i>>]
Prefix(s, n) == SubSeq(s, 1, IF n < Len(s) THEN n ELSE Len(s))

ProgPlain ==
    MkProgram("p1", SubSeq(DeclUniforms, 1, 1), << >>, << >>, SubSeq(DeclAttributes, 1, 1),
              <<Some("v0")>>, << >>, << >>)
ProgMissingA ==
    MkProgram("p2", SubSeq(DeclUniforms, 1, 2), << >>, << >>, SubSeq(DeclAttributes, 1, 1),
              <<None, Some("v1")>>, << >>, << >>)

MeshPosition == [attributes |-> <<MeshAttribute("position", "Float", "vb1")>>]
MeshNormal == [attributes |-> <<MeshAttribute("normal", "Float", "vb1")>>]

VertexSlice(start, end) ==
    [variant |-> "VertexSlice", prim |-> "TriangleList", start |-> start, end |-> end]
IndexSlice(bits, buf, start, end) ==
    [variant |-> IF bits = 8 THEN "IndexSlice8"
                 ELSE IF bits = 16 THEN "IndexSlice16" ELSE "IndexSlice32",
     prim |-> "TriangleList", buf |-> buf, start |-> start, end |-> end]

DrawInput(mesh, slice, frame, program) ==
    [mesh |-> mesh, slice |-> slice, frame |-> frame, program |-> program,
     state |-> DrawStateNew]

\* draws of the frame-centred specification: one that succeeds into every frame,
\* and on a few frames one that fails in bind_program and one that fails in bind_mesh
FrameDraws ==
    {DrawInput(MeshPosition, VertexSlice(0, 3), f, ProgPlain) : f \in Frames}
    \cup {DrawInput(MeshPosition, VertexSlice(0, 3), f, ProgMissingA) : f \in {FDefault, FD}}
    \cup {DrawInput(MeshNormal, VertexSlice(0, 3), f, ProgPlain) : f \in {FDefault, FE}}

ClearDatas == {"ClearColor"}

\* draws of the binder-centred specification.  ParamDraws vary the declared
\* parameters and which of them are supplied; MeshDraws vary the declared
\* attributes, the mesh and the slice.
UniformSupplies == UNION {Supplied(n, UniformValue) : n \in 0..MaxParams}
BlockSupplies == UNION {Supplied(n, BlockValue) : n \in 0..MaxParams}
TextureSupplies == UNION {Supplied(n, TextureValue) : n \in 0..MaxParams}
ParamPrograms ==
    {MkProgram("p3", Prefix(DeclUniforms, Len(pu)), Prefix(DeclBlocks, Len(pb)),
               Prefix(DeclTextures, Len(pt)), Prefix(DeclAttributes, 1), pu, pb, pt) :
        pu \in UniformSupplies, pb \in BlockSupplies, pt \in TextureSupplies}

MeshPool ==
    {MeshAttribute("position", "Float", "vb1"), MeshAttribute("position", "Int", "vb2"),
     MeshAttribute("normal", "Float", "vb1"), MeshAttribute("normal", "Int", "vb2"),
     MeshAttribute("extra", "Float", "vb3")}
Meshes == {[attributes |-> a] : a \in UNION {[1..n -> MeshPool] : n \in 0..MaxMeshAttrs}}
MeshPrograms ==
    {MkProgram("p4", Prefix(DeclUniforms, 1), << >>, << >>, Prefix(DeclAttributes, n),
               <<Some(UniformValue(1))>>, << >>, << >>) : n \in 0..MaxAttrs}
Slices ==
    {VertexSlice(0, 3)} \cup {IndexSlice(bits, "ib1", 0, 6) : bits \in {8, 16, 32}}

BinderDraws ==
    {DrawInput(MeshPosition, VertexSlice(0, 3), f, pr) :
        f \in {FDefault, FA}, pr \in ParamPrograms}
    \cup {DrawInput(m, sl, FA, pr) : m \in Meshes, sl \in Slices, pr \in MeshPrograms}

(***************************************************************************)
(* The device executing a recorded command buffer.                         *)
(***************************************************************************)
DevInit ==
    [fb |-> "fbo_main",
     colors |-> [i \in 1..NumColors |-> PlaneEmpty],
     depth |-> PlaneEmpty, stencil |-> PlaneEmpty]

PlaneOf(c) ==
    IF c.op = "unbind_target" THEN PlaneEmpty
    ELSE IF c.op = "bind_target_surface" THEN PlaneSurface(c.suf)
    ELSE PlaneTexture(c.tex, c.level, c.layer)

IsAttach(c) == c.op \in {"unbind_target", "bind_target_surface", "bind_target_texture"}

\* one command executed by the device; attachments go to the bound shared target
Exec(d, c) ==
    IF c.op = "bind_frame_buffer" THEN [d EXCEPT !.fb = c.fb]
    ELSE IF IsAttach(c) /\ d.fb = "fbo_common"
    THEN IF c.to.kind = "TargetColor"
         THEN IF c.to.index + 1 \in 1..NumColors
              THEN [d EXCEPT !.colors[c.to.index + 1] = PlaneOf(c)] ELSE d
         ELSE IF c.to.kind = "TargetDepth" THEN [d EXCEPT !.depth = PlaneOf(c)]
         ELSE [d EXCEPT !.stencil = PlaneOf(c)]
    ELSE d

RECURSIVE ExecAll(_, _)
ExecAll(d, cmds) ==
    IF cmds = << >> THEN d ELSE ExecAll(Exec(d, Head(cmds)), Tail(cmds))

(***************************************************************************)
(* Initial states and actions.                                             *)
(***************************************************************************)
NoResult == [ok |-> TRUE, none |-> TRUE]

\* the device before any link_program
LinkInit ==
    [device |-> [calls |-> << >>, made |-> 0], links |-> 0, start |-> 0,
     in |-> NoResult, ret |-> NoResult]

InitWith(ArrayBuffers) ==
    /\ \E ab \in ArrayBuffers :
         rend = [r \in RIds |-> IF r = 1 THEN create_renderer(ab) ELSE NoRenderer]
    /\ ret = [r \in RIds |-> NoResult]
    /\ log = [r \in RIds |-> << >>]
    /\ origin = [r \in RIds |-> [how |-> IF r = 1 THEN "create" ELSE "none",
                                  shadow |-> FrameNew(0, 0), recorded |-> 0,
                                  failed |-> FALSE]]
    /\ want = [r \in RIds |-> [frame |-> FrameNew(0, 0), default |-> FALSE]]
    /\ dev = DevInit
    /\ sub = [r \in RIds |-> FALSE]
    /\ lost = FALSE
    /\ link = LinkInit

Init == InitWith({OkOf("vao")})

Record(r, kind, in, res) ==
    /\ log' = [log EXCEPT ![r] = Append(@, [kind |-> kind, in |-> in, res |-> res,
                                            start |-> Len(rend[r].buf),
                                            before |-> rend[r].state.frame,
                                            wanted |-> want[r]])]
    /\ want' = [want EXCEPT ![r] = IF is_default(in.frame)
                                   THEN [@ EXCEPT !.default = TRUE]
                                   ELSE [frame |-> in.frame, default |-> FALSE]]

\* mutant: the renderers record into one command buffer that they all share
Draw_shares_buffer(r, Inputs) ==
    /\ rend[r].exists
    /\ Len(log[r]) < MaxCalls
    /\ \E in \in Inputs :
         LET out == draw(rend[r], in.mesh, in.slice, in.frame, in.program, in.state)
         IN  /\ rend' = [q \in RIds |->
                           IF q = r THEN out.self
                           ELSE IF rend[q].exists
                           THEN [rend[q] EXCEPT !.buf = out.self.buf]
                           ELSE rend[q]]
             /\ ret' = [ret EXCEPT ![r] = out.res]
             /\ Record(r, "draw", in, out.res)
    /\ lost' = (lost \/ sub[r])
    /\ UNCHANGED <<origin, dev, sub, link>>

Draw(r, Inputs) ==
    /\ rend[r].exists
    /\ Len(log[r]) < MaxCalls
    /\ \E in \in Inputs :
         LET out == draw(rend[r], in.mesh, in.slice, in.frame, in.program, in.state)
         IN  /\ rend' = [rend EXCEPT ![r] = out.self]
             /\ ret' = [ret EXCEPT ![r] = out.res]
             /\ Record(r, "draw", in, out.res)
    /\ lost' = (lost \/ sub[r])
    /\ UNCHANGED <<origin, dev, sub, link>>

Clear(r, Fs) ==
    /\ rend[r].exists
    /\ Len(log[r]) < MaxCalls
    /\ \E data \in ClearDatas, f \in Fs :
         /\ rend' = [rend EXCEPT ![r] = clear(rend[r], data, f)]
         /\ Record(r, "clear", [data |-> data, frame |-> f], NoResult)
    /\ ret' = [ret EXCEPT ![r] = NoResult]
    /\ lost' = (lost \/ sub[r])
    /\ UNCHANGED <<origin, dev, sub, link>>

Reset(r) ==
    /\ rend[r].exists
    /\ rend' = [rend EXCEPT ![r] = reset(rend[r])]
    /\ ret' = [ret EXCEPT ![r] = NoResult]
    /\ log' = [log EXCEPT ![r] = << >>]
    /\ origin' = [origin EXCEPT ![r] =
            [how |-> "reset", shadow |-> rend[r].state.frame, recorded |-> 0,
             failed |-> /\ ~sub[r]
                        /\ log[r] # << >>
                        /\ log[r][Len(log[r])].kind = "draw"
                        /\ ~log[r][Len(log[r])].res.ok
                        /\ ~is_default(log[r][Len(log[r])].in.frame)]]
    /\ sub' = [sub EXCEPT ![r] = FALSE]
    /\ lost' = (lost \/ (rend[r].buf # << >> /\ ~sub[r]))
    /\ UNCHANGED <<want, dev, link>>

\* the device executes the buffer handed out by as_buffer
Submit(r) ==
    /\ rend[r].exists
    /\ rend[r].buf # << >>
    /\ dev' = ExecAll(dev, rend[r].buf)
    /\ sub' = [sub EXCEPT ![r] = TRUE]
    /\ lost' = (lost \/ sub[r])
    /\ UNCHANGED <<rend, ret, log, origin, want, link>>

CloneEmpty(r, r2) ==
    /\ rend[r].exists
    /\ ~rend[r2].exists
    /\ rend' = [rend EXCEPT ![r2] = clone_empty(rend[r])]
    /\ origin' = [origin EXCEPT ![r2] = [how |-> "clone", shadow |-> rend[r].state.frame,
                                         recorded |-> Len(rend[r].buf),
                                         failed |-> FALSE]]
    /\ UNCHANGED <<ret, log, want, dev, sub, lost, link>>

\* link_program on the device, with any sources and any findings of the later stages
LinkProgram ==
    /\ link.links < MaxLinks
    /\ \E vs_src \in ShaderSources, fs_src \in ShaderSources, env \in LinkEnvs :
         LET out == link_program(link.device, vs_src, fs_src, env)
         IN  link' = [device |-> out.self,
                      links |-> link.links + 1,
                      start |-> Len(link.device.calls),
                      in |-> [vs_src |-> vs_src, fs_src |-> fs_src, env |-> env],
                      ret |-> out.res]
    /\ UNCHANGED <<rend, ret, log, origin, want, dev, sub, lost>>

\* the frame-centred specification: one renderer, every frame
Next ==
    \/ Draw(1, FrameDraws)
    \/ Clear(1, Frames)
    \/ Reset(1)

Spec == Init /\ [][Next]_vars

\* the binder-centred specification: one draw per buffer, every program and mesh,
\* on devices with and without array-buffer support
InitDraw == InitWith({OkOf("vao"), ErrUnit})

DrawOnce(r, Inputs) == log[r] = << >> /\ Draw(r, Inputs)

NextDraw ==
    \/ DrawOnce(1, BinderDraws)
    \/ Reset(1)

SpecDraw == InitDraw /\ [][NextDraw]_vars

(***************************************************************************)
(* Reading the recorded calls.                                             *)
(***************************************************************************)
Called(r, kind) == log[r] # << >> /\ log[r][Len(log[r])].kind = kind
LastCall(r) == log[r][Len(log[r])]
\* the commands appended by the last call
LastCmds(r) == SubSeq(rend[r].buf, LastCall(r).start + 1, Len(rend[r].buf))
Count(cmds, ops) == Cardinality({i \in 1..Len(cmds) : cmds[i].op \in ops})
FixedOps == {"set_primitive", "set_scissor", "set_depth_stencil", "set_blend",
             "set_color_mask"}
DrawOps == {"call_draw", "call_draw_indexed"}
AttachOps == {"unbind_target", "bind_target_surface", "bind_target_texture"}

(***************************************************************************)
(* C1                                                                      *)
(***************************************************************************)
\* the mesh has some attribute of the declared name and a compatible type
AnyMatch(mesh, sat) ==
    \E j \in 1..Len(mesh.attributes) :
        /\ mesh.attributes[j].name = sat.name
        /\ is_compatible(mesh.attributes[j].elem_type, sat.base_type)
\* the first attribute of the declared name has a compatible type
FirstMatch(mesh, sat) ==
    \E j \in 1..Len(mesh.attributes) :
        /\ mesh.attributes[j].name = sat.name
        /\ is_compatible(mesh.attributes[j].elem_type, sat.base_type)
        /\ \A k \in 1..(j - 1) : mesh.attributes[k].name # sat.name

NoBlocksAllUniforms(program) ==
    /\ program.info.blocks = << >>
    /\ program.info.textures = << >>
    /\ Len(program.params.uniforms) = Len(program.info.uniforms)
    /\ \A i \in 1..Len(program.params.uniforms) : program.params.uniforms[i].some

C1_Emitted(r) ==
    LET cmds == LastCmds(r)
        decl == LastCall(r).in.program.info.attributes
    IN  /\ ret[r] = Ok
        /\ Count(cmds, {"set_viewport"}) = 1
        /\ Count(cmds, {"bind_program"}) = 1
        /\ \A op \in FixedOps : Count(cmds, {op}) = 1
        /\ Count(cmds, {"bind_attribute"}) = Len(decl)
        /\ \A i \in 1..Len(decl) :
             Cardinality({k \in 1..Len(cmds) : /\ cmds[k].op = "bind_attribute"
                                               /\ cmds[k].slot = decl[i].location}) = 1
        /\ Count(cmds, DrawOps) = 1

\* C1 as stated: a draw with no blocks and no textures, all uniforms supplied and,
\* for each declared attribute, some mesh attribute of that name and a compatible
\* type, succeeds and emits one viewport, one program bind, the five fixed-function
\* commands, one attribute bind per declared attribute and one draw command.
C1_AnyMatchingAttribute ==
    (/\ Called(1, "draw")
     /\ NoBlocksAllUniforms(LastCall(1).in.program)
     /\ \A i \in 1..Len(LastCall(1).in.program.info.attributes) :
          AnyMatch(LastCall(1).in.mesh, LastCall(1).in.program.info.attributes[i]))
    => C1_Emitted(1)

\* C1 (amended): the same, for a mesh in which the first attribute of each declared
\* name is the type-compatible one.
C1_DrawSucceeds ==
    (/\ Called(1, "draw")
     /\ NoBlocksAllUniforms(LastCall(1).in.program)
     /\ \A i \in 1..Len(LastCall(1).in.program.info.attributes) :
          FirstMatch(LastCall(1).in.mesh, LastCall(1).in.program.info.attributes[i]))
    => C1_Emitted(1)

C1_Witness ==
    /\ Called(1, "draw")
    /\ NoBlocksAllUniforms(LastCall(1).in.program)
    /\ Len(LastCall(1).in.program.info.attributes) = 2
    /\ \A i \in 1..2 :
          FirstMatch(LastCall(1).in.mesh, LastCall(1).in.program.info.attributes[i])
    /\ LastCall(1).in.slice.variant = "IndexSlice16"
    /\ ret[1] = Ok
    /\ Count(LastCmds(1), {"bind_attribute"}) = 2

(***************************************************************************)
(* Slots of a frame and the attachment command each change asks for.       *)
(***************************************************************************)
\* slots 1..NumColors are the colors, then depth, then stencil
DepthSlot == NumColors + 1
StencilSlot == NumColors + 2
SlotIds == 1..StencilSlot
SlotOf(frame, s) ==
    IF s = DepthSlot THEN frame.depth
    ELSE IF s = StencilSlot THEN frame.stencil ELSE frame.colors[s]
TargetOfSlot(s) ==
    IF s = DepthSlot THEN [kind |-> "TargetDepth"]
    ELSE IF s = StencilSlot THEN [kind |-> "TargetStencil"]
    ELSE [kind |-> "TargetColor", index |-> s - 1]
DiffSlots(f, g) == {s \in SlotIds : SlotOf(f, s) # SlotOf(g, s)}
SameSlots(f, g) == DiffSlots(f, g) = {}
\* the command that attaches plane to slot s
Attachment(s, plane) ==
    IF plane.kind = "PlaneEmpty" THEN [op |-> "unbind_target", to |-> TargetOfSlot(s)]
    ELSE IF plane.kind = "PlaneSurface"
    THEN [op |-> "bind_target_surface", to |-> TargetOfSlot(s), suf |-> plane.suf]
    ELSE [op |-> "bind_target_texture", to |-> TargetOfSlot(s), tex |-> plane.tex,
          level |-> plane.level, layer |-> plane.layer]
\* the attachment commands that take the target from frame f to frame g
RECURSIVE AttachmentsFrom(_, _, _)
AttachmentsFrom(f, g, i) ==
    IF i > StencilSlot THEN << >>
    ELSE (IF SlotOf(f, i) # SlotOf(g, i) THEN <<Attachment(i, SlotOf(g, i))>>
          ELSE << >>)
         \o AttachmentsFrom(f, g, i + 1)
Attachments(cmds) == SelectSeq(cmds, LAMBDA c : c.op \in AttachOps)

(***************************************************************************)
(* C2                                                                      *)
(***************************************************************************)
\* two calls in a row asked for non-default frames that differ in exactly one slot
TwoFramesOneSlotApart(r) ==
    /\ Len(log[r]) >= 2
    /\ ~is_default(log[r][Len(log[r]) - 1].in.frame)
    /\ ~is_default(LastCall(r).in.frame)
    /\ Cardinality(DiffSlots(log[r][Len(log[r]) - 1].in.frame, LastCall(r).in.frame)) = 1

\* C2: binding non-default F1 and then non-default F2 that differs from F1 in exactly
\* one slot s emits, on the second call, exactly one attachment command; it targets
\* s and carries F2's plane at s.
C2_OneSlotOneCommand ==
    TwoFramesOneSlotApart(1) =>
        LET f1 == log[1][Len(log[1]) - 1].in.frame
            f2 == LastCall(1).in.frame
            s == CHOOSE x \in DiffSlots(f1, f2) : TRUE
        IN  Attachments(LastCmds(1)) = <<Attachment(s, SlotOf(f2, s))>>

C2_Witness ==
    /\ TwoFramesOneSlotApart(1)
    /\ Count(LastCmds(1), {"unbind_target"}) = 1
    /\ Count(LastCmds(1), AttachOps) = 1

(***************************************************************************)
(* C3                                                                      *)
(***************************************************************************)
\* C3: a call that asks for the default frame emits no attachment command and
\* leaves the shadow frame state as it was; and a non-default frame G asked for
\* right after a default-frame call that followed non-default F gets exactly the
\* attachment commands for the slots where G differs from F.
C3_DefaultKeepsShadow ==
    /\ (log[1] # << >> /\ is_default(LastCall(1).in.frame)) =>
          /\ Count(LastCmds(1), AttachOps) = 0
          /\ rend[1].state.frame = LastCall(1).before
    /\ (/\ log[1] # << >>
        /\ ~is_default(LastCall(1).in.frame)
        /\ LastCall(1).wanted.default
        /\ ~is_default(LastCall(1).wanted.frame)) =>
          Attachments(LastCmds(1)) =
              AttachmentsFrom(LastCall(1).wanted.frame, LastCall(1).in.frame, 1)

\* F, then the default frame, then G, with F and G differing in two slots
C3_Witness ==
    /\ log[1] # << >>
    /\ ~is_default(LastCall(1).in.frame)
    /\ LastCall(1).wanted.default
    /\ ~is_default(LastCall(1).wanted.frame)
    /\ Cardinality(DiffSlots(LastCall(1).wanted.frame, LastCall(1).in.frame)) = 2
    /\ Len(Attachments(LastCmds(1))) = 2

(***************************************************************************)
(* C4                                                                      *)
(***************************************************************************)
\* C4: after a draw or clear that asked for a non-default frame, whether it
\* succeeded or failed, the shadow frame state has the requested frame's plane in
\* every color, depth and stencil slot.
C4_ShadowIsRequested ==
    (log[1] # << >> /\ ~is_default(LastCall(1).in.frame)) =>
        \A s \in SlotIds : SlotOf(rend[1].state.frame, s) = SlotOf(LastCall(1).in.frame, s)

\* a draw that failed after binding a frame with color, depth and stencil planes
C4_Witness ==
    /\ Called(1, "draw")
    /\ ~ret[1].ok
    /\ LastCall(1).in.frame = FE
    /\ LastCall(1).before # FE
    /\ SameSlots(rend[1].state.frame, FE)

(***************************************************************************)
(* C8                                                                      *)
(***************************************************************************)
\* the declared parameters in scan order: uniforms, then blocks, then textures
ScanOrder(program) ==
    [i \in 1..Len(program.info.uniforms) |->
        [cat |-> "uniform", pos |-> i, decl |-> program.info.uniforms[i],
         some |-> program.params.uniforms[i].some]]
    \o [i \in 1..Len(program.info.blocks) |->
        [cat |-> "block", pos |-> i, decl |-> program.info.blocks[i],
         some |-> program.params.blocks[i].some]]
    \o [i \in 1..Len(program.info.textures) |->
        [cat |-> "texture", pos |-> i, decl |-> program.info.textures[i],
         some |-> program.params.textures[i].some]]
Absent(program) == {k \in 1..Len(ScanOrder(program)) : ~ScanOrder(program)[k].some}
FirstAbsent(program) ==
    CHOOSE k \in Absent(program) : \A j \in Absent(program) : k <= j
ParameterErrorOf(e) ==
    [variant |-> IF e.cat = "uniform" THEN "ErrorParamUniform"
                 ELSE IF e.cat = "block" THEN "ErrorParamBlock" ELSE "ErrorParamTexture",
     name |-> e.decl.name]
ParamOps == {"bind_uniform", "bind_uniform_block", "bind_texture"}
\* command c binds the declared parameter e
BindsParam(c, e) ==
    IF e.cat = "uniform" THEN c.op = "bind_uniform" /\ c.loc = e.decl.location
    ELSE IF e.cat = "block" THEN c.op = "bind_uniform_block" /\ c.index = e.pos - 1
    ELSE \/ c.op = "bind_texture" /\ c.slot = e.pos - 1
         \/ c.op = "bind_uniform" /\ c.loc = e.decl.location

\* C8: a draw whose program has an absent parameter fails with the error of the
\* first absent parameter in the order uniforms, blocks, textures, carrying its
\* declared name, and no command binds that parameter or a later one.
C8_FirstAbsentReported ==
    (Called(1, "draw") /\ Absent(LastCall(1).in.program) # {}) =>
        LET program == LastCall(1).in.program
            k == FirstAbsent(program)
            cmds == LastCmds(1)
        IN  /\ ret[1] = Err(ErrorParameter(ParameterErrorOf(ScanOrder(program)[k])))
            /\ \A j \in k..Len(ScanOrder(program)) : \A n \in 1..Len(cmds) :
                  ~BindsParam(cmds[n], ScanOrder(program)[j])
            /\ \A j \in 1..(k - 1) : \E n \in 1..Len(cmds) :
                  BindsParam(cmds[n], ScanOrder(program)[j])

\* uniforms [A, B] with only B supplied: the error names A, nothing was bound
C8_Witness ==
    /\ Called(1, "draw")
    /\ Len(LastCall(1).in.program.info.uniforms) = 2
    /\ ~LastCall(1).in.program.params.uniforms[1].some
    /\ LastCall(1).in.program.params.uniforms[2].some
    /\ ret[1] = Err(ErrorParameter(ErrorParamUniform("A")))
    /\ Count(LastCmds(1), ParamOps) = 0

(***************************************************************************)
(* C9                                                                      *)
(***************************************************************************)
AfterProgramOps ==
    FixedOps \cup {"bind_array_buffer", "bind_attribute", "bind_index", "call_draw",
                   "call_draw_indexed"}

\* C9: a draw whose parameter binding fails returns the parameter error wrapped as
\* a parameter-error draw failure, and appends no fixed-function, mesh, index or
\* draw command.
C9_ParameterFailureStops ==
    (Called(1, "draw") /\ Absent(LastCall(1).in.program) # {}) =>
        /\ ~ret[1].ok
        /\ ret[1].err.variant = "ErrorParameter"
        /\ \E k \in Absent(LastCall(1).in.program) :
              ret[1].err.inner = ParameterErrorOf(ScanOrder(LastCall(1).in.program)[k])
        /\ Count(LastCmds(1), AfterProgramOps) = 0

\* a texture is absent after a uniform and a block were bound
C9_Witness ==
    /\ Called(1, "draw")
    /\ ~ret[1].ok
    /\ ret[1].err = ErrorParameter(ErrorParamTexture("TexA"))
    /\ Count(LastCmds(1), {"bind_uniform_block"}) > 0
    /\ Count(LastCmds(1), AfterProgramOps) = 0

(***************************************************************************)
(* C10                                                                     *)
(***************************************************************************)
\* declared attributes for which the mesh has no attribute of that name
Missing(in) ==
    {i \in 1..Len(in.program.info.attributes) :
        \A j \in 1..Len(in.mesh.attributes) :
            in.mesh.attributes[j].name # in.program.info.attributes[i].name}
FirstMissing(in) == CHOOSE i \in Missing(in) : \A j \in Missing(in) : i <= j
\* bind_mesh is reached and the mesh lacks a declared attribute
MeshLacksAttribute(r) ==
    /\ Called(r, "draw")
    /\ Absent(LastCall(r).in.program) = {}
    /\ Missing(LastCall(r).in) # {}
BoundSlots(cmds) == {cmds[n].slot : n \in {m \in 1..Len(cmds) : cmds[m].op = "bind_attribute"}}

\* C10 as stated: whenever the mesh lacks a declared attribute, the error is
\* attribute-missing for the first such attribute.
C10_AlwaysAttributeMissing ==
    MeshLacksAttribute(1) =>
        LET in == LastCall(1).in
        IN  ret[1] = Err(ErrorMesh(ErrorAttributeMissing(
                            in.program.info.attributes[FirstMissing(in)].name)))

\* C10 (amended): when the mesh lacks a declared attribute and the first
\* name-matching mesh attribute of every attribute declared before the first
\* lacking one is type-compatible, draw fails with the mesh error
\* attribute-missing naming it, the attribute binds are exactly those of the
\* attributes declared before it, and no index bind or draw command is appended;
\* when an earlier attribute is incompatible the failure is still a mesh error.
C10_MissingAttributeReported ==
    MeshLacksAttribute(1) =>
        LET in == LastCall(1).in
            decl == in.program.info.attributes
            k == FirstMissing(in)
            cmds == LastCmds(1)
        IN  /\ ~ret[1].ok
            /\ ret[1].err.variant = "ErrorMesh"
            /\ Count(cmds, {"bind_index", "call_draw", "call_draw_indexed"}) = 0
            /\ BoundSlots(cmds) \subseteq {decl[i].location : i \in 1..(k - 1)}
            /\ (\A i \in 1..(k - 1) : FirstMatch(in.mesh, decl[i])) =>
                  /\ ret[1].err.inner = ErrorAttributeMissing(decl[k].name)
                  /\ BoundSlots(cmds) = {decl[i].location : i \in 1..(k - 1)}
                  /\ Count(cmds, {"bind_attribute"}) = k - 1

\* position is bound, then normal is found missing
C10_Witness ==
    /\ MeshLacksAttribute(1)
    /\ FirstMissing(LastCall(1).in) = 2
    /\ ret[1] = Err(ErrorMesh(ErrorAttributeMissing("normal")))
    /\ Count(LastCmds(1), {"bind_attribute"}) = 1

(***************************************************************************)
(* The device-centred specification: one renderer whose buffers the device *)
(* executes, or that are reset without having been executed.               *)
(***************************************************************************)
DevFrames == {FDefault, FA, FC, FD, FG}
DevDraws ==
    {DrawInput(MeshPosition, VertexSlice(0, 3), FC, ProgPlain),
     DrawInput(MeshPosition, VertexSlice(0, 3), FD, ProgMissingA)}

NextDev ==
    \/ Draw(1, DevDraws)
    \/ Clear(1, DevFrames)
    \/ Submit(1)
    \/ Reset(1)

SpecDev == Init /\ [][NextDev]_vars

(***************************************************************************)
(* The clone specification: a renderer and its clone_empty copy, each      *)
(* recording its own calls, in any interleaving.                           *)
(***************************************************************************)
CloneFrames == {FDefault, FE}
CloneDraws == {DrawInput(MeshPosition, VertexSlice(0, 3), FC, ProgMissingA)}

NextClone ==
    \/ \E r \in RIds : Draw(r, CloneDraws)
    \/ \E r \in RIds : Clear(r, CloneFrames)
    \/ \E r \in RIds : Reset(r)
    \/ CloneEmpty(1, 2)

SpecClone == Init /\ [][NextClone]_vars

(***************************************************************************)
(* C5                                                                      *)
(***************************************************************************)
DevSlot(d, s) ==
    IF s = DepthSlot THEN d.depth ELSE IF s = StencilSlot THEN d.stencil ELSE d.colors[s]
\* the device's bound target is what frame asks for
DevMatches(d, frame) ==
    IF is_default(frame) THEN d.fb = "fbo_main"
    ELSE d.fb = "fbo_common" /\ \A s \in SlotIds : DevSlot(d, s) = SlotOf(frame, s)
\* index of the last command of the k-th recorded call
EndOfCall(r, k) ==
    IF k < Len(log[r]) THEN log[r][k + 1].start ELSE Len(rend[r].buf)

\* C5: as long as every recorded buffer is executed once, in order, by a device
\* whose shared target started empty, the shared target's attachments after the
\* execution are the planes of the most recently requested non-default frame, and
\* at the end of every call's commands the device's bound target matches the frame
\* that call asked for.
C5_DeviceFollowsFrames ==
    (~lost /\ ~rend[2].exists) =>
        /\ LET d == IF sub[1] THEN dev ELSE ExecAll(dev, rend[1].buf)
           IN  \A s \in SlotIds : DevSlot(d, s) = SlotOf(want[1].frame, s)
        /\ ~sub[1] =>
              \A k \in 1..Len(log[1]) :
                  DevMatches(ExecAll(dev, SubSeq(rend[1].buf, 1, EndOfCall(1, k))),
                             log[1][k].in.frame)

\* a buffer with two calls was executed after an earlier buffer, and the second
\* buffer unbound a color plane the first had bound
C5_Witness ==
    /\ ~lost
    /\ sub[1]
    /\ origin[1].how = "reset"
    /\ Len(log[1]) = 2
    /\ ~SameSlots(origin[1].shadow, FrameNew(0, 0))
    /\ Count(rend[1].buf, {"unbind_target"}) > 0
    /\ dev.fb = "fbo_common"
    /\ \A s \in SlotIds : DevSlot(dev, s) = SlotOf(FG, s)

(***************************************************************************)
(* C6                                                                      *)
(***************************************************************************)
\* a freshly created renderer performing the calls of a log
RECURSIVE Replay(_, _, _)
Replay(self, calls, i) ==
    IF i > Len(calls) THEN [self |-> self, results |-> << >>]
    ELSE LET c == calls[i]
             out == IF c.kind = "draw"
                    THEN draw(self, c.in.mesh, c.in.slice, c.in.frame, c.in.program,
                              c.in.state)
                    ELSE [self |-> clear(self, c.in.data, c.in.frame), res |-> NoResult]
             rest == Replay(out.self, calls, i + 1)
         IN  [self |-> rest.self, results |-> <<out.res>> \o rest.results]
FreshRun(r) == Replay(create_renderer(rend[r].common_array_buffer), log[r], 1)
Results(r) == [k \in 1..Len(log[r]) |-> log[r][k].res]
WithoutAttachments(cmds) == SelectSeq(cmds, LAMBDA c : c.op \notin AttachOps)

\* C6 as stated: after reset, the recorded commands and the results are those of
\* a freshly created renderer performing the same calls.
C6_ResetIsFresh ==
    origin[1].how = "reset" =>
        LET fresh == FreshRun(1)
        IN  /\ rend[1].buf = fresh.self.buf
            /\ Results(1) = fresh.results

\* C6 (amended): after reset, the results and the commands other than attachment
\* commands are those of a freshly created renderer performing the same calls; the
\* whole command sequence is the same when the shadow frame state kept across the
\* reset has every slot empty.
C6_ResetKeepsShadow ==
    origin[1].how = "reset" =>
        LET fresh == FreshRun(1)
        IN  /\ Results(1) = fresh.results
            /\ WithoutAttachments(rend[1].buf) = WithoutAttachments(fresh.self.buf)
            /\ rend[1].common_frame_buffer = fresh.self.common_frame_buffer
            /\ rend[1].default_frame_buffer = fresh.self.default_frame_buffer
            /\ SameSlots(origin[1].shadow, FrameNew(0, 0)) =>
                  rend[1].buf = fresh.self.buf

\* after a reset that kept a bound frame, two calls recorded fewer attachment
\* commands than a fresh renderer would
C6_Witness ==
    /\ origin[1].how = "reset"
    /\ Len(log[1]) = 2
    /\ ~SameSlots(origin[1].shadow, FrameNew(0, 0))
    /\ ~ret[1].ok
    /\ Len(rend[1].buf) < Len(FreshRun(1).self.buf)
    /\ WithoutAttachments(rend[1].buf) = WithoutAttachments(FreshRun(1).self.buf)

(***************************************************************************)
(* C7                                                                      *)
(***************************************************************************)
\* C7: a renderer made by clone_empty starts with an empty command sequence, the
\* original's common and default target handles and the never-drawn shadow frame
\* state, so the first non-default frame it binds gets an attachment command for
\* every non-empty slot.
C7_CloneStartsEmpty ==
    /\ (origin[2].how = "clone" /\ log[2] = << >>) =>
          /\ rend[2].buf = << >>
          /\ rend[2].common_frame_buffer = rend[1].common_frame_buffer
          /\ rend[2].default_frame_buffer = rend[1].default_frame_buffer
          /\ rend[2].common_array_buffer = rend[1].common_array_buffer
          /\ rend[2].state.frame = FrameNew(0, 0)
    /\ (origin[2].how = "clone" /\ Len(log[2]) = 1 /\ ~is_default(log[2][1].in.frame)) =>
          /\ Attachments(rend[2].buf) =
                AttachmentsFrom(FrameNew(0, 0), log[2][1].in.frame, 1)
          /\ \A s \in SlotIds :
                SlotOf(log[2][1].in.frame, s) # PlaneEmpty =>
                    \E n \in 1..Len(rend[2].buf) :
                        rend[2].buf[n] = Attachment(s, SlotOf(log[2][1].in.frame, s))

\* the original had recorded commands and last bound FE; the clone binds FE
C7_Witness ==
    /\ origin[2].how = "clone"
    /\ origin[2].recorded > 0
    /\ origin[2].shadow = FE
    /\ Len(log[2]) = 1
    /\ log[2][1].in.frame = FE
    /\ Len(Attachments(rend[2].buf)) = 3

(***************************************************************************)
(* C11                                                                     *)
(***************************************************************************)
IsIndexed(slice) == slice.variant \in {"IndexSlice8", "IndexSlice16", "IndexSlice32"}
\* the element-width tag of an indexed slice of 8, 16 or 32 bits
WidthTag(slice) ==
    CASE slice.variant = "IndexSlice8" -> "U8"
      [] slice.variant = "IndexSlice16" -> "U16"
      [] slice.variant = "IndexSlice32" -> "U32"
\* cmds ends with what draw_slice is to append for slice, and has no other index
\* bind or draw command
EndsWithDrawOf(cmds, slice) ==
    LET n == Len(cmds)
    IN  IF IsIndexed(slice)
        THEN /\ n >= 2
             /\ cmds[n - 1] = [op |-> "bind_index", buf |-> slice.buf]
             /\ cmds[n] = [op |-> "call_draw_indexed", prim |-> slice.prim,
                           width |-> WidthTag(slice), start |-> slice.start,
                           end |-> slice.end]
             /\ Count(cmds, {"bind_index"}) = 1
             /\ Count(cmds, DrawOps) = 1
        ELSE /\ n >= 1
             /\ cmds[n] = [op |-> "call_draw", prim |-> slice.prim,
                           start |-> slice.start, end |-> slice.end]
             /\ Count(cmds, {"bind_index"}) = 0
             /\ Count(cmds, DrawOps) = 1

\* C11: draw_slice on an indexed slice of 8, 16 or 32 bits appends a bind-index for
\* the slice's index buffer immediately followed by exactly one draw-indexed command
\* with the same width, topology and range; on a non-indexed slice it appends
\* exactly one draw command and no bind-index.  Stated of draw_slice applied to the
\* renderer in every reachable state, and of the commands of every draw that
\* reached draw_slice.
C11_SliceDispatch ==
    /\ \A slice \in Slices :
          LET cmds == draw_slice(rend[1], slice).buf
              n == Len(rend[1].buf)
          IN  /\ SubSeq(cmds, 1, n) = rend[1].buf
              /\ Len(cmds) = n + (IF IsIndexed(slice) THEN 2 ELSE 1)
              /\ EndsWithDrawOf(SubSeq(cmds, n + 1, Len(cmds)), slice)
    /\ (Called(1, "draw") /\ ret[1] = Ok) =>
          EndsWithDrawOf(LastCmds(1), LastCall(1).in.slice)

\* a draw of a 32-bit indexed slice succeeded
C11_Witness ==
    /\ Called(1, "draw")
    /\ ret[1] = Ok
    /\ LastCall(1).in.slice.variant = "IndexSlice32"
    /\ LastCmds(1)[Len(LastCmds(1))].width = "U32"
    /\ LastCmds(1)[Len(LastCmds(1)) - 1].op = "bind_index"

(***************************************************************************)
(* C12                                                                     *)
(***************************************************************************)
\* this step is a draw call on renderer r that returned a failure
FailedDrawStep(r) ==
    /\ Len(log'[r]) = Len(log[r]) + 1
    /\ log'[r][Len(log'[r])].kind = "draw"
    /\ ~ret'[r].ok

\* C12: a failed draw is not rolled back.  The commands recorded before the call
\* are still there in the same order; after them come the commands the call emitted
\* up to the failure: set-viewport, bind-frame-buffer, then one bind-program, the
\* fixed-function commands only when the program's parameters were all bound, and no
\* draw command; and the shadow frame state is the requested frame when that frame
\* is not the default one (and unchanged when it is).
C12_FailedDrawNotRolledBack ==
    [][FailedDrawStep(1) =>
        LET call == log'[1][Len(log'[1])]
            before == rend[1].buf
            after == rend'[1].buf
            emitted == SubSeq(after, Len(before) + 1, Len(after))
        IN  /\ Len(after) >= Len(before) + 3
            /\ SubSeq(after, 1, Len(before)) = before
            /\ call.start = Len(before)
            /\ emitted[1].op = "set_viewport"
            /\ emitted[2].op = "bind_frame_buffer"
            /\ Count(emitted, {"bind_program"}) = 1
            /\ Count(emitted, DrawOps \cup {"bind_index"}) = 0
            /\ ret'[1].err.variant = "ErrorParameter" => Count(emitted, FixedOps) = 0
            /\ ret'[1].err.variant = "ErrorMesh" => Count(emitted, FixedOps) = 5
            /\ rend'[1].state.frame =
                  IF is_default(call.in.frame) THEN rend[1].state.frame
                  ELSE call.in.frame
    ]_vars

\* a draw failed as the second call of a buffer, after it had rebound the target:
\* the first call's commands and the failed call's commands are both recorded, and
\* the shadow frame state is the failed call's frame
C12_Witness ==
    /\ Called(1, "draw")
    /\ ~ret[1].ok
    /\ Len(log[1]) = 2
    /\ LastCall(1).start > 0
    /\ log[1][1].kind = "clear"
    /\ rend[1].buf[LastCall(1).start].op = "call_clear"
    /\ Count(LastCmds(1), {"bind_program"}) = 1
    /\ Count(LastCmds(1), AttachOps) > 0
    /\ LastCall(1).in.frame = FD
    /\ LastCall(1).before # FD
    /\ rend[1].state.frame = FD

(***************************************************************************)
(* C13                                                                     *)
(***************************************************************************)
\* the buffer of renderer r started by a reset that discarded the never-executed
\* commands of a failed draw into a non-default frame, and its first call asks for
\* that frame again
RetryAfterFailedDraw(r) ==
    /\ origin[r].how = "reset"
    /\ origin[r].failed
    /\ ~sub[r]
    /\ log[r] # << >>
    /\ log[r][1].in.frame = origin[r].shadow

\* C13 as stated: after a failed draw into non-default F and a reset without
\* submitting, the next draw or clear into F records the attachment commands that
\* make the device's bound target match F once the device, which never received the
\* discarded commands, has executed the new sequence.
C13_RetryRebindsTarget ==
    RetryAfterFailedDraw(1) =>
        DevMatches(ExecAll(dev, SubSeq(rend[1].buf, 1, EndOfCall(1, 1))), origin[1].shadow)

(***************************************************************************)
(* C14                                                                     *)
(***************************************************************************)
\* renderer r as it was when its current buffer was empty: the shared handles, and
\* the shadow frame state its own reset kept, or the fresh one
StartOf(r) ==
    [create_renderer(rend[r].common_array_buffer) EXCEPT
        !.state.frame = IF origin[r].how = "reset" THEN origin[r].shadow
                        ELSE FrameNew(0, 0)]
\* renderer r after running the calls of its own log, alone
RunsAlone(r) == Replay(StartOf(r), log[r], 1)
\* this step is an operation on renderer r
OperatedOn(r) == log'[r] # log[r] \/ origin'[r] # origin[r] \/ ret'[r] # ret[r]

\* C14: a renderer and its clone_empty copy share no mutable state.  Under every
\* interleaving of draw, clear and reset on the two, each one's command sequence,
\* shadow frame state and results are what its own calls alone produce, and an
\* operation on one leaves the other's command sequence and shadow frame state
\* as they were.
C14_ClonesAreIndependent ==
    /\ [](\A r \in RIds : rend[r].exists =>
            LET alone == RunsAlone(r)
            IN  /\ rend[r] = alone.self
                /\ Results(r) = alone.results)
    /\ [][\A r \in RIds : OperatedOn(r) =>
            \A q \in RIds \ {r} : rend'[q] = rend[q]]_vars

\* the clone was made while the original had commands recorded; since then both
\* have recorded calls, and they hold different sequences and shadow frame states
C14_Witness ==
    /\ origin[2].how = "clone"
    /\ origin[2].recorded > 0
    /\ Len(log[1]) = 2
    /\ Len(log[2]) = 2
    /\ ~ret[2].ok
    /\ rend[1].buf # rend[2].buf
    /\ rend[1].state.frame # rend[2].state.frame
    /\ ~SameSlots(rend[2].state.frame, FrameNew(0, 0))

(***************************************************************************)
(* C15                                                                     *)
(***************************************************************************)
\* C15: reset empties the command sequence and changes nothing else.  In every
\* reachable state reset yields the same renderer with an empty command sequence,
\* and every step that leaves renderer 1 with no recorded call (a reset) leaves
\* its shadow frame state and its common-array-buffer, common-target and
\* default-target handles as they were before the step.
C15_ResetOnlyEmptiesCommands ==
    /\ [](/\ reset(rend[1]).buf = << >>
          /\ reset(rend[1]).state = rend[1].state
          /\ reset(rend[1]).common_array_buffer = rend[1].common_array_buffer
          /\ reset(rend[1]).common_frame_buffer = rend[1].common_frame_buffer
          /\ reset(rend[1]).default_frame_buffer = rend[1].default_frame_buffer)
    /\ [][log'[1] = << >> =>
            /\ rend'[1].buf = << >>
            /\ rend'[1].state = rend[1].state
            /\ rend'[1].common_array_buffer = rend[1].common_array_buffer
            /\ rend'[1].common_frame_buffer = rend[1].common_frame_buffer
            /\ rend'[1].default_frame_buffer = rend[1].default_frame_buffer]_vars

\* a reset discarded the commands of a failed draw into FE: the sequence is empty,
\* the shadow frame state is still FE and the handles are those of creation
C15_Witness ==
    /\ origin[1].how = "reset"
    /\ origin[1].failed
    /\ log[1] = << >>
    /\ rend[1].buf = << >>
    /\ rend[1].state.frame = FE
    /\ rend[1].common_array_buffer = OkOf("vao")
    /\ rend[1].common_frame_buffer = "fbo_common"
    /\ rend[1].default_frame_buffer = "fbo_main"

(***************************************************************************)
(* C16                                                                     *)
(***************************************************************************)
LocationsOf(decl) == {decl[i].location : i \in 1..Len(decl)}
\* the phase of a draw that command c belongs to, for a program with interface info
PhaseOf(c, info) ==
    CASE c.op = "set_viewport" -> 1
      [] c.op = "bind_frame_buffer" -> 2
      [] c.op \in AttachOps -> 3
      [] c.op = "bind_program" -> 4
      [] c.op = "bind_uniform" /\ c.loc \in LocationsOf(info.uniforms) -> 5
      [] c.op = "bind_uniform_block" -> 6
      [] c.op = "bind_uniform" /\ c.loc \notin LocationsOf(info.uniforms) -> 7
      [] c.op = "bind_texture" -> 7
      [] c.op = "set_primitive" -> 8
      [] c.op = "set_scissor" -> 9
      [] c.op = "set_depth_stencil" -> 10
      [] c.op = "set_blend" -> 11
      [] c.op = "set_color_mask" -> 12
      [] c.op = "bind_array_buffer" -> 13
      [] c.op = "bind_attribute" -> 14
      [] c.op = "bind_index" -> 15
      [] c.op \in DrawOps -> 16
      [] OTHER -> 0
OfOp(cmds, op) == SelectSeq(cmds, LAMBDA c : c.op = op)
OfPhase(cmds, info, ph) == SelectSeq(cmds, LAMBDA c : PhaseOf(c, info) = ph)
UpTo(n) == [i \in 1..n |-> i - 1]

\* C16: the commands of a successful draw come in phases: set-viewport,
\* bind-frame-buffer and the attachment commands; bind-program, then the uniform
\* binds, then the block binds, then the texture binds, each in declaration order;
\* set-primitive, set-scissor, set-depth-stencil, set-blend, set-color-mask; the
\* optional bind-array-buffer and the attribute binds in declared order; and the
\* draw or draw-indexed command last.
C16_PhasesInOrder ==
    (Called(1, "draw") /\ ret[1] = Ok) =>
        LET cmds == LastCmds(1)
            info == LastCall(1).in.program.info
            uniforms == OfPhase(cmds, info, 5)
            blocks == OfPhase(cmds, info, 6)
            samplers == OfOp(OfPhase(cmds, info, 7), "bind_uniform")
            textures == OfOp(cmds, "bind_texture")
            attributes == OfOp(cmds, "bind_attribute")
        IN  /\ \A i, j \in 1..Len(cmds) :
                  i < j => PhaseOf(cmds[i], info) <= PhaseOf(cmds[j], info)
            /\ \A i \in 1..Len(cmds) : PhaseOf(cmds[i], info) # 0
            /\ \A ph \in {1, 2, 4, 8, 9, 10, 11, 12, 16} :
                  Len(OfPhase(cmds, info, ph)) = 1
            /\ Len(OfPhase(cmds, info, 13)) <= 1
            /\ cmds[Len(cmds)].op \in DrawOps
            /\ [i \in 1..Len(uniforms) |-> uniforms[i].loc]
                  = [i \in 1..Len(info.uniforms) |-> info.uniforms[i].location]
            /\ [i \in 1..Len(blocks) |-> blocks[i].index] = UpTo(Len(info.blocks))
            /\ [i \in 1..Len(samplers) |-> samplers[i].loc]
                  = [i \in 1..Len(info.textures) |-> info.textures[i].location]
            /\ [i \in 1..Len(textures) |-> textures[i].slot] = UpTo(Len(info.textures))
            /\ [i \in 1..Len(attributes) |-> attributes[i].slot]
                  = [i \in 1..Len(info.attributes) |-> info.attributes[i].location]

\* a successful draw into a frame that needed an attachment, with two uniforms, two
\* blocks and two textures, on a device with an array buffer
C16_Witness ==
    /\ Called(1, "draw")
    /\ ret[1] = Ok
    /\ Len(LastCall(1).in.program.info.uniforms) = 2
    /\ Len(LastCall(1).in.program.info.blocks) = 2
    /\ Len(LastCall(1).in.program.info.textures) = 2
    /\ Count(LastCmds(1), AttachOps) = 1
    /\ Count(LastCmds(1), {"bind_array_buffer"}) = 1
    /\ Count(LastCmds(1), {"bind_uniform_block"}) = 2
    /\ Count(LastCmds(1), {"bind_texture"}) = 2

(***************************************************************************)
(* C17                                                                     *)
(***************************************************************************)
\* positions in cmds of the commands with operation op
PositionsOf(cmds, op) == {n \in 1..Len(cmds) : cmds[n].op = op}

\* C17: when bind_program succeeds, the i-th declared block (from 0) is bound with
\* uniform-buffer slot i, block index i and the buffer supplied for it, and the
\* i-th declared texture gives an integer-uniform bind at its declared location
\* with value i, immediately followed by a bind-texture at slot i with the texture
\* and sampler supplied for it; distinct blocks get distinct slots and distinct
\* textures get distinct slots.
C17_SlotsFollowPositions ==
    (Called(1, "draw") /\ Absent(LastCall(1).in.program) = {}) =>
        LET cmds == LastCmds(1)
            program == LastCall(1).in.program
            blocks == OfOp(cmds, "bind_uniform_block")
            textures == PositionsOf(cmds, "bind_texture")
        IN  /\ Len(blocks) = Len(program.info.blocks)
            /\ \A i \in 1..Len(blocks) :
                  blocks[i] = [op |-> "bind_uniform_block", prog |-> program.name,
                               slot |-> i - 1, index |-> i - 1,
                               buf |-> program.params.blocks[i].val]
            /\ \A i, j \in 1..Len(blocks) : i # j => blocks[i].slot # blocks[j].slot
            /\ Cardinality(textures) = Len(program.info.textures)
            /\ \A i \in 1..Len(program.info.textures) :
                  \E n \in textures :
                      /\ n > 1
                      /\ cmds[n - 1] = [op |-> "bind_uniform",
                                        loc |-> program.info.textures[i].location,
                                        val |-> [ValueI32 |-> i - 1]]
                      /\ cmds[n] = [op |-> "bind_texture", slot |-> i - 1,
                                    kind |-> program.params.textures[i].val.tex.kind,
                                    tex |-> program.params.textures[i].val.tex.name,
                                    sampler |-> program.params.textures[i].val.sampler]
            /\ \A n, m \in textures : n # m => cmds[n].slot # cmds[m].slot

\* two blocks and two textures were bound: slots 0 and 1 each
C17_Witness ==
    /\ Called(1, "draw")
    /\ Absent(LastCall(1).in.program) = {}
    /\ Len(LastCall(1).in.program.info.blocks) = 2
    /\ Len(LastCall(1).in.program.info.textures) = 2
    /\ {c.slot : c \in {LastCmds(1)[n] : n \in PositionsOf(LastCmds(1), "bind_texture")}}
          = {0, 1}
    /\ {c.slot : c \in {LastCmds(1)[n] : n \in PositionsOf(LastCmds(1), "bind_uniform_block")}}
          = {0, 1}

(***************************************************************************)
(* C18                                                                     *)
(***************************************************************************)
\* index of the first mesh attribute named as the declared attribute sat, or 0
FirstNamed(mesh, sat) ==
    IF \E j \in 1..Len(mesh.attributes) : mesh.attributes[j].name = sat.name
    THEN CHOOSE j \in 1..Len(mesh.attributes) :
            /\ mesh.attributes[j].name = sat.name
            /\ \A k \in 1..(j - 1) : mesh.attributes[k].name # sat.name
    ELSE 0
\* declared attributes whose first name-matching mesh attribute is type-incompatible
Incompatible(in) ==
    {i \in 1..Len(in.program.info.attributes) :
        /\ i \notin Missing(in)
        /\ ~FirstMatch(in.mesh, in.program.info.attributes[i])}
\* declared attributes that bind_mesh cannot bind
Unbindable(in) == Missing(in) \cup Incompatible(in)
\* the mesh without the attributes that no declared attribute names
DeclaredOnly(mesh, info) ==
    [attributes |->
        SelectSeq(mesh.attributes,
                  LAMBDA a : \E i \in 1..Len(info.attributes) :
                                a.name = info.attributes[i].name)]
\* the bind-attribute command of declared attribute sat from mesh attribute vat
AttributeBind(sat, vat) ==
    [op |-> "bind_attribute", slot |-> sat.location, buf |-> vat.buffer,
     elem_count |-> vat.elem_count, elem_type |-> vat.elem_type,
     stride |-> vat.stride, offset |-> vat.offset]
\* bind_mesh was reached by the last draw
ReachedMesh(r) == Called(r, "draw") /\ Absent(LastCall(r).in.program) = {}
\* every bind-attribute command is the bind of a declared attribute from the first
\* mesh attribute of its name, and undeclared mesh attributes change nothing
BindsDeclaredFromFirst(r) ==
    LET in == LastCall(r).in
        decl == in.program.info.attributes
        cmds == LastCmds(r)
    IN  /\ \A n \in PositionsOf(cmds, "bind_attribute") :
              \E i \in 1..Len(decl) :
                  /\ FirstNamed(in.mesh, decl[i]) # 0
                  /\ cmds[n] = AttributeBind(decl[i],
                                    in.mesh.attributes[FirstNamed(in.mesh, decl[i])])
        /\ bind_mesh(rend[r], in.mesh, in.program.info)
              = bind_mesh(rend[r], DeclaredOnly(in.mesh, in.program.info), in.program.info)
        /\ ~ret[r].ok =>
              \/ ret[r].err = ErrorMesh(ErrorAttributeType)
              \/ \E i \in 1..Len(decl) :
                    ret[r].err = ErrorMesh(ErrorAttributeMissing(decl[i].name))

\* C18 as stated: besides the above, whenever the first name-matching mesh attribute
\* of a declared attribute is type-incompatible, the failure is the nameless
\* attribute-type error and no bind-attribute is emitted for that attribute or a
\* later one.
C18_IncompatibleAlwaysTypeError ==
    ReachedMesh(1) =>
        /\ BindsDeclaredFromFirst(1)
        /\ \A i \in Incompatible(LastCall(1).in) :
              LET decl == LastCall(1).in.program.info.attributes
              IN  /\ ret[1] = Err(ErrorMesh(ErrorAttributeType))
                  /\ BoundSlots(LastCmds(1)) \cap
                        {decl[j].location : j \in i..Len(decl)} = {}

\* C18 (amended): the first declared attribute that cannot be bound decides the
\* failure: when it has a first name-match of an incompatible type the failure is the
\* nameless attribute-type error, when it has no name-match it is attribute-missing;
\* either way bind-attribute commands are emitted exactly for the attributes
\* declared before it, so none for an incompatible attribute or a later one.
C18_FirstUnbindableDecides ==
    ReachedMesh(1) =>
        /\ BindsDeclaredFromFirst(1)
        /\ LET in == LastCall(1).in
               decl == in.program.info.attributes
           IN  IF Unbindable(in) = {}
               THEN ret[1] = Ok /\ BoundSlots(LastCmds(1)) = LocationsOf(decl)
               ELSE LET k == CHOOSE i \in Unbindable(in) : \A j \in Unbindable(in) : i <= j
                    IN  /\ ret[1] = Err(ErrorMesh(IF k \in Incompatible(in)
                                                  THEN ErrorAttributeType
                                                  ELSE ErrorAttributeMissing(decl[k].name)))
                        /\ BoundSlots(LastCmds(1)) = {decl[i].location : i \in 1..(k - 1)}
                        /\ Count(LastCmds(1), {"bind_attribute"}) = k - 1
                        /\ \A i \in Incompatible(in) :
                              BoundSlots(LastCmds(1)) \cap
                                 {decl[j].location : j \in i..Len(decl)} = {}

\* position was bound from the mesh's first attribute of that name, then the
\* mesh's normal attribute was found to be of an incompatible type
C18_Witness ==
    /\ ReachedMesh(1)
    /\ Len(LastCall(1).in.program.info.attributes) = 2
    /\ Incompatible(LastCall(1).in) = {2}
    /\ Missing(LastCall(1).in) = {}
    /\ ret[1] = Err(ErrorMesh(ErrorAttributeType))
    /\ Count(LastCmds(1), {"bind_attribute"}) = 1

(***************************************************************************)
(* C19                                                                     *)
(***************************************************************************)
\* the commands appended by the k-th recorded call
CmdsOfCall(r, k) == SubSeq(rend[r].buf, log[r][k].start + 1, EndOfCall(r, k))

\* C19: every draw, successful or failed, and every clear appends first one
\* set-viewport with x = 0, y = 0 and the requested frame's width and height, then
\* one bind-frame-buffer naming the default target handle for a default frame and
\* the common target handle otherwise, also when the frame equals the shadow frame
\* state; a clear appends exactly one clear command, as its last command.
C19_ViewportAndTargetFirst ==
    \A k \in 1..Len(log[1]) :
        LET cmds == CmdsOfCall(1, k)
            frame == log[1][k].in.frame
        IN  /\ Len(cmds) >= 2
            /\ cmds[1] = [op |-> "set_viewport", x |-> 0, y |-> 0,
                          w |-> frame.width, h |-> frame.height]
            /\ cmds[2] = [op |-> "bind_frame_buffer",
                          fb |-> IF is_default(frame) THEN rend[1].default_frame_buffer
                                 ELSE rend[1].common_frame_buffer]
            /\ Count(cmds, {"set_viewport"}) = 1
            /\ Count(cmds, {"bind_frame_buffer"}) = 1
            /\ log[1][k].kind = "clear" =>
                  /\ Count(cmds, {"call_clear"}) = 1
                  /\ cmds[Len(cmds)] = [op |-> "call_clear", data |-> log[1][k].in.data]

\* a failed draw into FD and then a clear of FD, which is the shadow frame state by
\* then: the clear appended its three commands and no attachment command
C19_Witness ==
    /\ Len(log[1]) = 2
    /\ log[1][1].kind = "draw"
    /\ ~log[1][1].res.ok
    /\ log[1][1].in.frame = FD
    /\ Called(1, "clear")
    /\ LastCall(1).in.frame = FD
    /\ LastCall(1).before = FD
    /\ Len(LastCmds(1)) = 3

(***************************************************************************)
(* The linking specification: link_program calls on one device.            *)
(***************************************************************************)
NextLink == LinkProgram

SpecLink == Init /\ [][NextLink]_vars

(***************************************************************************)
(* C20                                                                     *)
(***************************************************************************)
\* the stages of link_program in order, with what each finds for the arguments in
StagesOf(in) ==
    << [op |-> "create_shader", stage |-> "Vertex", ok |-> in.vs_src.compiles,
        error |-> IF in.vs_src.compiles THEN "none" ELSE ErrorVertex(in.vs_src.error)],
       [op |-> "create_shader", stage |-> "Fragment", ok |-> in.fs_src.compiles,
        error |-> IF in.fs_src.compiles THEN "none"
                  ELSE ErrorFragment(in.fs_src.error)],
       [op |-> "create_program", stage |-> "Link", ok |-> in.env.fit,
        error |-> ErrorLink("()")],
       [op |-> "connect", stage |-> "Parameters", ok |-> in.env.wanted.ok,
        error |-> IF in.env.wanted.ok THEN "none"
                  ELSE ErrorParameters(in.env.wanted.err)] >>
FailingStages(in) == {k \in 1..4 : ~StagesOf(in)[k].ok}
\* the device calls made by the last link_program
LinkCalls == SubSeq(link.device.calls, link.start + 1, Len(link.device.calls))
\* the device call c is the attempt of stage st
AttemptOf(c, st) ==
    /\ c.op = st.op
    /\ c.op = "create_shader" => c.stage = st.stage

\* C20: link_program attempts the stages vertex compile, fragment compile, link,
\* parameter connection in that order, stops at the first stage that fails without
\* attempting a later one, returns that stage's error variant wrapping that stage's
\* diagnostic, and returns a program only if all four stages succeed.
C20_LinkStopsAtFirstFailure ==
    link.links > 0 =>
        LET stages == StagesOf(link.in)
            failing == FailingStages(link.in)
            last == IF failing = {} THEN 4
                    ELSE CHOOSE k \in failing : \A j \in failing : k <= j
        IN  /\ Len(LinkCalls) = last
            /\ \A k \in 1..last : AttemptOf(LinkCalls[k], stages[k])
            /\ failing # {} => link.ret = Err(stages[last].error)
            /\ link.ret.ok <=> failing = {}
            /\ link.ret.ok =>
                  /\ LinkCalls[3].shaders[1].stage = "Vertex"
                  /\ LinkCalls[3].shaders[2].stage = "Fragment"
                  /\ link.ret.val.UserProgram.shaders = LinkCalls[3].shaders
                  /\ LinkCalls[4].prog = link.ret.val.UserProgram

\* the vertex shader failed to compile and so would every later stage: only the
\* vertex compile was attempted, and its diagnostic is returned as the vertex error
C20_Witness ==
    /\ link.links = 2
    /\ FailingStages(link.in) = {1, 2, 3, 4}
    /\ Len(LinkCalls) = 1
    /\ link.ret = Err(ErrorVertex("NoSupportedShaderProvided"))
    /\ link.start > 0

====
